---- MODULE Spec2Model ----
(***************************************************************************)
(* cert-manage: whitelist resolver and loader (whitelist/whitelist.go),    *)
(* the windows trust store stub (whitelist/whitelist.go, package store),   *)
(* the directory mirroring utility (tools/file/file.go) with the           *)
(* file-tree-backed store built on it, and the confirmation server         *)
(* (package server).                                                       *)
(*                                                                         *)
(* Strings are sequences of one-character strings.                         *)
(***************************************************************************)
EXTENDS Integers, Sequences, FiniteSets

VARIABLES
    \* findRemovable call
    incoming,       \* []*x509.Certificate argument
    whitelisted,    \* []Item argument
    removable,      \* returned slice
    rpc,            \* "call" before the call, "done" after
    \* loadFromFile call
    path,           \* path argument
    disk,           \* file system: name -> "missing" | "file" | "dir"
    contents,       \* the JSON document held by every regular file
    loaded,         \* [items, err] returned by loadFromFile
    stdout,         \* lines printed by validWhitelistPath
    lpc,            \* "call" before the call, "done" after
    \* confirmation server
    srv,            \* "nil" or "registered": the package-level *http.Server
    wg,             \* counter of the package-level sync.WaitGroup
    waiters,        \* waiter count of the WaitGroup: callers blocked in wg.Wait
    sema,           \* semaphore of the WaitGroup: wake-ups not yet taken
    releasing,      \* handlers inside wg.Done whose decrement reached zero with
                    \* a waiter: the state [v, w] each one read and the step it
                    \* is at ("check", "store" or "release")
    mainpc,         \* the caller: "ready", "waiting" (in wg.Wait), "shutdown"
                    \* (after wg.Wait, before srv.Shutdown), "returned", "panicked"
    spawned,        \* goroutines of Start that have not yet run ListenAndServe
    listening,      \* the server accepts connections
    shut,           \* srv.Shutdown has been called
    inflight,       \* /done requests accepted whose handler has not run
    active,         \* connections that are not idle
    starts,         \* history: calls of wg.Add(1) by Start
    arrived,        \* history: /done requests accepted
    handled,        \* history: /done requests handled (calls of wg.Done)
    panics,         \* history: handlers ended by a WaitGroup panic
    \* windows store
    winStore,       \* certificates the operating system trusts
    winBackedUp,    \* history: a Backup returned nil in this session
    winCall,        \* last call: [op, wh, err, list, before]
    \* file-tree-backed store
    live,           \* the live certificate directory (a tree node)
    backup,         \* the backup directory next to it (a tree node)
    fsBackedUp,     \* history: a Backup succeeded in this session
    fsCall,         \* last call: [op, err, fault, before, backupBefore, hadRecord]
    trip            \* history: progress through Backup; Remove; Restore and
                    \* the List() output taken before that Backup

rvars == <<incoming, whitelisted, removable, rpc>>
lvars == <<path, disk, contents, loaded, stdout, lpc>>
svars == <<srv, wg, waiters, sema, releasing, mainpc, spawned, listening, shut,
           inflight, active, starts, arrived, handled, panics>>
wvars == <<winStore, winBackedUp, winCall>>
fvars == <<live, backup, fsBackedUp, fsCall, trip>>
vars == <<rvars, lvars, svars, wvars, fvars>>
notResolver == <<lvars, svars, wvars, fvars>>
notLoad == <<rvars, svars, wvars, fvars>>
notServer == <<rvars, lvars, wvars, fvars>>
notWindows == <<rvars, lvars, svars, fvars>>
notFile == <<rvars, lvars, svars, wvars>>

\* ------------------------------------------------------------------ bounds
MaxIncoming == 3        \* longest snapshot handed to findRemovable
MaxWhitelisted == 2     \* longest whitelist handed to findRemovable
MaxHex == 2             \* longest Signatures.Hex array in a whitelist file
MaxStart == 2           \* most calls of Start that add to the WaitGroup
MaxDone == 3            \* most /done requests sent to the server
MaxStoreWhitelist == 1  \* longest whitelist handed to a store's Remove

\* ------------------------------------------------------------------ strings
LowerOf == [ch \in {"a", "b", "c", "A", "B", "C", "-", " ", "w"} |->
              CASE ch = "A" -> "a" [] ch = "B" -> "b" [] ch = "C" -> "c"
                [] OTHER -> ch]

ToLower(s) == [i \in 1..Len(s) |-> LowerOf[s[i]]]

HasPrefix(s, prefix) ==
    /\ Len(s) >= Len(prefix)
    /\ SubSeq(s, 1, Len(prefix)) = prefix

\* ------------------------------------------------------------------ certificates and items
\* A certificate, reduced to the field the fingerprint item compares: its
\* hex fingerprint (lower-case hex without separators).
Cert(fp) == [fingerprint |-> fp]

CertPool == {Cert(<<"a", "b">>), Cert(<<"a", "c">>), Cert(<<"b", "a">>)}

\* *x509.Certificate: nil or a pointer to a certificate.
NilCert == [nil |-> TRUE, cert |-> Cert(<<>>)]
Ptr(c) == [nil |-> FALSE, cert |-> c]
CertPtrs == {NilCert} \cup {Ptr(c) : c \in CertPool}

\* fingerprint{Signature: s}
fingerprint(s) == [Signature |-> s]

SigPool == {<<>>, <<"a">>, <<"A", "b">>, <<"b", "a">>, <<"a", "b", "c">>}
ItemPool == {fingerprint(s) : s \in SigPool}

\* Item.Matches for the fingerprint item: the certificate's fingerprint
\* starts with the signature, compared without regard to case; the empty
\* signature matches nothing.
Matches(wh, c) ==
    /\ wh.Signature # <<>>
    /\ HasPrefix(ToLower(c.fingerprint), ToLower(wh.Signature))

\* ------------------------------------------------------------------ findRemovable
\* The inner loop of findRemovable: remove starts true and is cleared by
\* every whitelist item that matches a non-nil certificate.
removeFlag(inc, wl) ==
    ~ \E i \in 1..Len(wl) : (~inc.nil) /\ Matches(wl[i], inc.cert)

\* findRemovable with a defect: the flag is assigned by every item instead of
\* only cleared, so the last item alone decides.
findRemovable_LastItemDecides(inc, wl) ==
    SelectSeq(inc, LAMBDA p :
        IF Len(wl) = 0 THEN TRUE
        ELSE ~((~p.nil) /\ Matches(wl[Len(wl)], p.cert)))

findRemovable(inc, wl) ==
    SelectSeq(inc, LAMBDA p : removeFlag(p, wl))

SeqsUpTo(S, n) == UNION {[1..k -> S] : k \in 0..n}

InitResolver ==
    /\ incoming \in SeqsUpTo(CertPtrs, MaxIncoming)
    /\ whitelisted \in SeqsUpTo(ItemPool, MaxWhitelisted)
    /\ removable = <<>>
    /\ rpc = "call"

IdleResolver ==
    /\ incoming = <<>>
    /\ whitelisted = <<>>
    /\ removable = <<>>
    /\ rpc = "idle"

FindRemovableCall ==
    /\ rpc = "call"
    /\ removable' = findRemovable(incoming, whitelisted)
    /\ rpc' = "done"
    /\ UNCHANGED <<incoming, whitelisted>>
    /\ UNCHANGED notResolver

\* ------------------------------------------------------------------ whitelist file
\* A JSON document as json.Unmarshal sees it.  syntax: whether the bytes are
\* valid JSON; top: the kind of the top-level value; sigs: the kind of the
\* value under "Signatures"; hex: the kind of the value under "Hex"; elems:
\* the elements of the Hex array, each a string, null or a number.
JString(s) == [kind |-> "string", str |-> s]
JNull == [kind |-> "null", str |-> <<>>]
JNumber == [kind |-> "number", str |-> <<>>]
ElemPool == {JString(s) : s \in SigPool} \cup {JNull, JNumber}

Doc(syntax, top, sigs, hex, elems) ==
    [syntax |-> syntax, top |-> top, sigs |-> sigs, hex |-> hex, elems |-> elems]

DocPool ==
    {Doc(FALSE, "object", "absent", "absent", <<>>)}
    \cup {Doc(TRUE, t, "absent", "absent", <<>>) : t \in {"null", "array", "object"}}
    \cup {Doc(TRUE, "object", s, "absent", <<>>) : s \in {"null", "string", "object"}}
    \cup {Doc(TRUE, "object", "object", h, <<>>) : h \in {"null", "string"}}
    \cup {Doc(TRUE, "object", "object", "array", e) : e \in SeqsUpTo(ElemPool, MaxHex)}

\* json.Unmarshal(b, &parsed) for jsonWhitelist: the Hex slice left in
\* parsed and the error.  Invalid syntax decodes nothing.  A value of the
\* wrong type is skipped, the first such error is kept and decoding goes
\* on, so a non-string element leaves "" in its place; null leaves the
\* zero value without an error.
Unmarshal(doc) ==
    IF ~doc.syntax THEN [Hex |-> <<>>, err |-> "SyntaxError"]
    ELSE IF doc.top = "null" THEN [Hex |-> <<>>, err |-> "nil"]
    ELSE IF doc.top # "object" THEN [Hex |-> <<>>, err |-> "UnmarshalTypeError"]
    ELSE IF doc.sigs \in {"absent", "null"} THEN [Hex |-> <<>>, err |-> "nil"]
    ELSE IF doc.sigs # "object" THEN [Hex |-> <<>>, err |-> "UnmarshalTypeError"]
    ELSE IF doc.hex \in {"absent", "null"} THEN [Hex |-> <<>>, err |-> "nil"]
    ELSE IF doc.hex # "array" THEN [Hex |-> <<>>, err |-> "UnmarshalTypeError"]
    ELSE [Hex |-> [i \in 1..Len(doc.elems) |->
                     IF doc.elems[i].kind = "string" THEN doc.elems[i].str ELSE <<>>],
          err |-> IF \E i \in 1..Len(doc.elems) : doc.elems[i].kind = "number"
                  THEN "UnmarshalTypeError" ELSE "nil"]

\* ------------------------------------------------------------------ file.Exists, ioutil.ReadFile
IsSpace(ch) == ch = " "

RECURSIVE TrimLeft(_)
TrimLeft(s) == IF s # <<>> /\ IsSpace(Head(s)) THEN TrimLeft(Tail(s)) ELSE s

RECURSIVE TrimRight(_)
TrimRight(s) ==
    IF s # <<>> /\ IsSpace(s[Len(s)]) THEN TrimRight(SubSeq(s, 1, Len(s) - 1)) ELSE s

TrimSpace(s) == TrimRight(TrimLeft(s))

DiskNames == {<<"w">>, <<"-", "w">>, <<" ", "w">>}
PathPool == DiskNames \cup {<<>>}

\* os.Stat succeeds: the empty path made absolute is the working directory.
Stat(d, p) == IF p = <<>> THEN TRUE ELSE p \in DOMAIN d /\ d[p] # "missing"

Exists(d, p) == Stat(d, TrimSpace(p))

ReadFile(d, doc, p) ==
    IF p \notin DOMAIN d \/ d[p] = "missing" THEN [b |-> doc, err |-> "ENOENT", ok |-> FALSE]
    ELSE IF d[p] = "dir" THEN [b |-> doc, err |-> "EISDIR", ok |-> FALSE]
    ELSE [b |-> doc, err |-> "nil", ok |-> TRUE]

\* ------------------------------------------------------------------ validWhitelistPath, loadFromFile
validWhitelistPath(d, p) ==
    LET missing == IF ~Exists(d, p) THEN <<"doesn't seem to exist">> ELSE <<>>
        isFlag == HasPrefix(p, <<"-">>)
    IN  IF Len(p) = 0 \/ isFlag
        THEN [ok |-> FALSE,
              out |-> missing \o <<"doesn't look correct">>
                      \o (IF isFlag THEN <<"looks like a cli flag">>
                          ELSE <<"path is empty">>)]
        ELSE [ok |-> TRUE, out |-> missing]

items(hex) == [i \in 1..Len(hex) |-> fingerprint(hex[i])]

\* loadFromFile with a defect: the error of json.Unmarshal is returned
\* together with the items decoded so far.
loadFromFile_IgnoreDecodeErr(d, doc, p) ==
    IF ~validWhitelistPath(d, p).ok THEN [items |-> <<>>, err |-> "invalid path"]
    ELSE IF ~ReadFile(d, doc, p).ok THEN [items |-> <<>>, err |-> ReadFile(d, doc, p).err]
    ELSE [items |-> items(Unmarshal(doc).Hex), err |-> Unmarshal(doc).err]

loadFromFile(d, doc, p) ==
    IF ~validWhitelistPath(d, p).ok THEN [items |-> <<>>, err |-> "invalid path"]
    ELSE LET r == ReadFile(d, doc, p)
         IN  IF ~r.ok THEN [items |-> <<>>, err |-> r.err]
             ELSE LET parsed == Unmarshal(r.b)
                  IN  IF parsed.err # "nil" THEN [items |-> <<>>, err |-> parsed.err]
                      ELSE [items |-> items(parsed.Hex), err |-> "nil"]

InitLoad ==
    /\ path \in PathPool
    /\ disk \in {d \in [DiskNames -> {"missing", "file", "dir"}] :
                    d[<<"-", "w">>] # "dir" /\ d[<<" ", "w">>] # "dir"}
    /\ contents \in DocPool
    /\ loaded = [items |-> <<>>, err |-> "nil"]
    /\ stdout = <<>>
    /\ lpc = "call"

IdleLoad ==
    /\ path = <<>>
    /\ disk = [n \in DiskNames |-> "missing"]
    /\ contents = Doc(TRUE, "null", "absent", "absent", <<>>)
    /\ loaded = [items |-> <<>>, err |-> "nil"]
    /\ stdout = <<>>
    /\ lpc = "idle"

LoadFromFileCall ==
    /\ lpc = "call"
    /\ loaded' = loadFromFile(disk, contents, path)
    /\ stdout' = validWhitelistPath(disk, path).out
    /\ lpc' = "done"
    /\ UNCHANGED <<path, disk, contents>>
    /\ UNCHANGED notLoad

\* ------------------------------------------------------------------ confirmation server
InitServer ==
    /\ srv = "nil"
    /\ wg = 0
    /\ waiters = 0
    /\ sema = 0
    /\ releasing = <<>>
    /\ mainpc = "ready"
    /\ spawned = 0
    /\ listening = FALSE
    /\ shut = FALSE
    /\ inflight = 0
    /\ active = 0
    /\ starts = 0
    /\ arrived = 0
    /\ handled = 0
    /\ panics = 0

IdleServer ==
    /\ srv = "nil"
    /\ wg = 0
    /\ waiters = 0
    /\ sema = 0
    /\ releasing = <<>>
    /\ mainpc = "idle"
    /\ spawned = 0
    /\ listening = FALSE
    /\ shut = FALSE
    /\ inflight = 0
    /\ active = 0
    /\ starts = 0
    /\ arrived = 0
    /\ handled = 0
    /\ panics = 0

\* Register: creates the server and installs the /done handler once.
Register ==
    /\ mainpc = "ready"
    /\ srv = "nil"
    /\ srv' = "registered"
    /\ UNCHANGED <<wg, waiters, sema, releasing, mainpc, spawned, listening, shut,
                   inflight, active, starts, arrived, handled, panics>>
    /\ UNCHANGED notServer

\* Start without a registered server: prints to stderr and returns.
StartUnregistered ==
    /\ mainpc = "ready"
    /\ srv = "nil"
    /\ UNCHANGED svars
    /\ UNCHANGED notServer

\* Start: wg.Add(1), then spawns the goroutine that runs ListenAndServe.
\* Add changes the counter first and panics when the result is negative, or
\* when it raises the counter from zero while a waiter is registered: the
\* panic is in the caller, which ends without spawning the goroutine.  (An
\* Add(1) never ends at zero with a waiter: the one caller is not in Wait
\* while it is in Start.)
Start ==
    /\ mainpc = "ready"
    /\ srv # "nil"
    /\ starts < MaxStart
    /\ wg' = wg + 1
    /\ starts' = starts + 1
    /\ IF wg + 1 < 0 \/ (waiters # 0 /\ wg + 1 = 1)
       THEN /\ mainpc' = "panicked"
            /\ UNCHANGED spawned
       ELSE /\ spawned' = spawned + 1
            /\ UNCHANGED mainpc
    /\ UNCHANGED <<srv, waiters, sema, releasing, listening, shut, inflight, active,
                   arrived, handled, panics>>
    /\ UNCHANGED notServer

\* The goroutine of Start: srv.ListenAndServe binds the address or fails
\* (the address is taken, by this server or another process, or the server
\* has been shut down); the error is printed.
ListenAndServe ==
    /\ spawned > 0
    /\ spawned' = spawned - 1
    /\ \E bound \in BOOLEAN :
          listening' = (listening \/ (bound /\ ~shut))
    /\ UNCHANGED <<srv, wg, waiters, sema, releasing, mainpc, shut, inflight,
                   active, starts, arrived, handled, panics>>
    /\ UNCHANGED notServer

\* A client requests /done and the server accepts the connection.
DoneArrive ==
    /\ listening
    /\ arrived < MaxDone
    /\ arrived' = arrived + 1
    /\ inflight' = inflight + 1
    /\ active' = active + 1
    /\ UNCHANGED <<srv, wg, waiters, sema, releasing, mainpc, spawned, listening,
                   shut, starts, handled, panics>>
    /\ UNCHANGED notServer

\* The /done handler, in its own goroutine: writes the page, then the
\* deferred wg.Done() runs.  wg.Done is Add(-1), whose first step changes
\* the counter atomically and reads the state [v, w]: a negative counter
\* panics (net/http recovers the panic of a handler); a positive counter, or
\* no waiter, returns; a counter of zero with a waiter goes on to the
\* release (DoneCheck, DoneStore, DoneRelease), three later steps of this
\* goroutine.
DoneHandler ==
    /\ inflight > 0
    /\ mainpc # "panicked"
    /\ inflight' = inflight - 1
    /\ handled' = handled + 1
    /\ wg' = wg - 1
    /\ IF wg - 1 < 0
       THEN /\ panics' = panics + 1
            /\ UNCHANGED releasing
       ELSE IF wg - 1 > 0 \/ waiters = 0
       THEN UNCHANGED <<panics, releasing>>
       ELSE /\ releasing' = Append(releasing,
                                    [v |-> wg - 1, w |-> waiters, at |-> "check"])
            /\ UNCHANGED panics
    /\ UNCHANGED <<srv, waiters, sema, mainpc, spawned, listening, shut, active,
                   starts, arrived>>
    /\ UNCHANGED notServer

\* The end of wg.Done, first step: the state is read again and, when it is
\* no longer the one the decrement left, Add panics (recovered by net/http)
\* and wakes nobody.
DoneCheck ==
    /\ mainpc # "panicked"
    /\ \E i \in 1..Len(releasing) :
          /\ releasing[i].at = "check"
          /\ IF <<wg, waiters>> # <<releasing[i].v, releasing[i].w>>
             THEN /\ panics' = panics + 1
                  /\ releasing' = SubSeq(releasing, 1, i - 1)
                                    \o SubSeq(releasing, i + 1, Len(releasing))
             ELSE /\ releasing' = [releasing EXCEPT ![i].at = "store"]
                  /\ UNCHANGED panics
    /\ UNCHANGED <<srv, wg, waiters, sema, mainpc, spawned, listening, shut,
                   inflight, active, starts, arrived, handled>>
    /\ UNCHANGED notServer

\* The end of wg.Done, second step: the state is reset with a plain store
\* of zero, which overwrites any decrement made since the check.
DoneStore ==
    /\ mainpc # "panicked"
    /\ \E i \in 1..Len(releasing) :
          /\ releasing[i].at = "store"
          /\ releasing' = [releasing EXCEPT ![i].at = "release"]
    /\ wg' = 0
    /\ waiters' = 0
    /\ UNCHANGED <<srv, sema, mainpc, spawned, listening, shut, inflight, active,
                   starts, arrived, handled, panics>>
    /\ UNCHANGED notServer

\* The end of wg.Done, third step: the semaphore is released once for each
\* waiter the decrement saw, and the handler ends.
DoneRelease ==
    /\ mainpc # "panicked"
    /\ \E i \in 1..Len(releasing) :
          /\ releasing[i].at = "release"
          /\ sema' = sema + releasing[i].w
          /\ releasing' = SubSeq(releasing, 1, i - 1)
                            \o SubSeq(releasing, i + 1, Len(releasing))
    /\ UNCHANGED <<srv, wg, waiters, mainpc, spawned, listening, shut, inflight,
                   active, starts, arrived, handled, panics>>
    /\ UNCHANGED notServer

\* A connection whose handler has ended becomes idle (or is closed).
ConnIdle ==
    /\ active > inflight + Len(releasing)
    /\ mainpc # "panicked"
    /\ active' = active - 1
    /\ UNCHANGED <<srv, wg, waiters, sema, releasing, mainpc, spawned, listening,
                   shut, inflight, starts, arrived, handled, panics>>
    /\ UNCHANGED notServer

\* Stop, entering wg.Wait(): it returns at once when the counter is zero;
\* otherwise it registers the caller as a waiter and blocks on the
\* semaphore.
StopWait ==
    /\ mainpc = "ready"
    /\ IF wg = 0
       THEN /\ mainpc' = "shutdown"
            /\ UNCHANGED waiters
       ELSE /\ mainpc' = "waiting"
            /\ waiters' = waiters + 1
    /\ UNCHANGED <<srv, wg, sema, releasing, spawned, listening, shut, inflight,
                   active, starts, arrived, handled, panics>>
    /\ UNCHANGED notServer

\* Stop, leaving wg.Wait(): the caller, in its own goroutine, takes the
\* wake-up from the semaphore and reads the state: when it is no longer
\* zero Wait panics in the caller, otherwise Wait returns.
WaitReturn ==
    /\ mainpc = "waiting"
    /\ sema > 0
    /\ sema' = sema - 1
    /\ mainpc' = IF <<wg, waiters>> # <<0, 0>> THEN "panicked" ELSE "shutdown"
    /\ UNCHANGED <<srv, wg, waiters, releasing, spawned, listening, shut, inflight,
                   active, starts, arrived, handled, panics>>
    /\ UNCHANGED notServer

\* Stop, second half: srv.Shutdown(nil) when a server exists.  Shutdown
\* closes the listener and returns once every connection is idle; with a
\* connection still active it waits on the nil context, which panics.
StopShutdown ==
    /\ mainpc = "shutdown"
    /\ IF srv = "nil"
       THEN /\ mainpc' = "returned"
            /\ UNCHANGED <<listening, shut>>
       ELSE /\ shut' = TRUE
            /\ listening' = FALSE
            /\ mainpc' = IF active > 0 THEN "panicked" ELSE "returned"
    /\ UNCHANGED <<srv, wg, waiters, sema, releasing, spawned, inflight, active,
                   starts, arrived, handled, panics>>
    /\ UNCHANGED notServer

NextServer ==
    \/ Register
    \/ StartUnregistered
    \/ Start
    \/ ListenAndServe
    \/ DoneArrive
    \/ DoneHandler
    \/ DoneCheck
    \/ DoneStore
    \/ DoneRelease
    \/ ConnIdle
    \/ StopWait
    \/ WaitReturn
    \/ StopShutdown

\* ------------------------------------------------------------------ windows store
\* The whitelists handed to Remove.
StoreWhitelists == SeqsUpTo(ItemPool, MaxStoreWhitelist)

NoCall == [op |-> "none", wh |-> <<>>, err |-> "nil", list |-> <<>>, before |-> {}]

InitWindows ==
    /\ winStore \in SUBSET CertPool
    /\ winBackedUp = FALSE
    /\ winCall = NoCall

IdleWindows ==
    /\ winStore = {}
    /\ winBackedUp = FALSE
    /\ winCall = [NoCall EXCEPT !.op = "idle"]

\* windowsStore.Backup: returns nil.
WinBackup ==
    /\ winCall.op # "idle"
    /\ winCall' = [op |-> "Backup", wh |-> <<>>, err |-> "nil", list |-> <<>>,
                   before |-> winStore]
    /\ winBackedUp' = TRUE
    /\ UNCHANGED winStore
    /\ UNCHANGED notWindows

\* windowsStore.List: prints the output of certmgr and returns nil, nil.
WinList ==
    /\ winCall.op # "idle"
    /\ winCall' = [op |-> "List", wh |-> <<>>, err |-> "nil", list |-> <<>>,
                   before |-> winStore]
    /\ UNCHANGED <<winStore, winBackedUp>>
    /\ UNCHANGED notWindows

\* windowsStore.Remove: returns nil.
WinRemove ==
    /\ winCall.op # "idle"
    /\ \E wh \in StoreWhitelists :
          winCall' = [op |-> "Remove", wh |-> wh, err |-> "nil", list |-> <<>>,
                      before |-> winStore]
    /\ UNCHANGED <<winStore, winBackedUp>>
    /\ UNCHANGED notWindows

\* windowsStore.Restore: returns nil.
WinRestore ==
    /\ winCall.op # "idle"
    /\ winCall' = [op |-> "Restore", wh |-> <<>>, err |-> "nil", list |-> <<>>,
                   before |-> winStore]
    /\ UNCHANGED <<winStore, winBackedUp>>
    /\ UNCHANGED notWindows

NextWindows == WinBackup \/ WinList \/ WinRemove \/ WinRestore

\* ------------------------------------------------------------------ file trees
\* A node of a file tree.  A regular file holds the certificate with the
\* fingerprint data (<<>>: an empty file) and a permission mode; a symlink
\* holds in data its target, the name of an entry of the same directory; a
\* directory holds its entries in sub.  Dangling stands for a path that
\* does not exist and that os.MkdirAll cannot create: it resolves, through
\* a symlink, to an entry that does not exist, or it lies below a
\* directory that os.MkdirAll failed to create.
Dangling == [kind |-> "dangling", data |-> <<>>, mode |-> "", sub |-> <<>>]
Absent == [kind |-> "absent", data |-> <<>>, mode |-> "", sub |-> <<>>]
File(data, mode) == [kind |-> "file", data |-> data, mode |-> mode, sub |-> <<>>]
Symlink(target) == [kind |-> "symlink", data |-> target, mode |-> "", sub |-> <<>>]
Dir(sub) == [kind |-> "dir", data |-> <<>>, mode |-> "", sub |-> sub]

\* ioutil.ReadDir returns the entries sorted by file name.
NameOrder == <<"a.crt", "b.crt", "c.pem", "mozilla">>

SortedNames(sub) == SelectSeq(NameOrder, LAMBDA n : n \in DOMAIN sub)

Child(dir, name) ==
    IF dir.kind = "dir" /\ name \in DOMAIN dir.sub THEN dir.sub[name] ELSE Absent

Put(dir, name, node) ==
    [dir EXCEPT !.sub = [n \in (DOMAIN dir.sub) \cup {name} |->
                            IF n = name THEN node ELSE dir.sub[n]]]

\* An injected failure of one file system call: op at the path (relative
\* to the mirrored root).
NoFault == [path |-> <<>>, op |-> "none"]
Faulty(fault, p, op) == fault.path = p /\ fault.op = op

DirOps == {"stat_src", "stat_dst", "mkdir", "readdir"}
FileOps == {"open", "create", "copy", "sync", "stat", "chmod"}
LinkOps == {"readlink", "symlink"}

FaultPool ==
    {NoFault}
    \cup {[path |-> p, op |-> o] : p \in {<<>>, <<"mozilla">>}, o \in DirOps}
    \cup {[path |-> p, op |-> o] :
            p \in {<<"a.crt">>, <<"b.crt">>, <<"mozilla", "a.crt">>}, o \in FileOps}
    \cup {[path |-> <<"c.pem">>, op |-> o] : o \in LinkOps}

\* ------------------------------------------------------------------ symlinks
\* The entry of dir that the path dir/name resolves to when the symlinks
\* on it are followed (os.Stat, os.Create, os.Chmod follow them): the name
\* of the first entry on the chain that is no symlink, which may not exist;
\* a chain that comes back to itself is ELOOP.
RECURSIVE Resolve(_, _, _)
Resolve(dir, name, seen) ==
    IF Child(dir, name).kind # "symlink" THEN [name |-> name, err |-> "nil"]
    ELSE IF name \in seen THEN [name |-> name, err |-> "ELOOP"]
    ELSE Resolve(dir, Head(Child(dir, name).data), seen \cup {name})

\* The error of a call on a path below d, where d is no directory: ENOENT
\* when d does not exist, ENOTDIR when d is a file.
BelowErr(d) == IF d.kind \in {"dangling", "absent"} THEN "ENOENT" ELSE "ENOTDIR"

\* ------------------------------------------------------------------ CopyFile
\* CopyFile(src, dst): s is the source file, d the directory of dst (the
\* node there), name the file name of dst.  Returns d afterwards and the
\* error.  os.Create follows a symlink at dst and so writes the entry the
\* link resolves to, creating it when it does not exist; it truncates an
\* existing file (keeping its mode) and creates a new one with mode 0666
\* less the umask.  os.Chmod follows the link as well.
CopyFile(s, d, name, fault, p) ==
    IF Faulty(fault, p, "open") THEN [dst |-> d, err |-> "EIO"]
    ELSE IF d.kind # "dir" THEN [dst |-> d, err |-> BelowErr(d)]
    ELSE LET r == Resolve(d, name, {})
             cur == Child(d, r.name)
             created == File(<<>>, IF cur.kind = "file" THEN cur.mode ELSE "0644")
             written == [created EXCEPT !.data = s.data]
             chmodded == [written EXCEPT !.mode = s.mode]
         IN  IF r.err # "nil" THEN [dst |-> d, err |-> r.err]
             ELSE IF cur.kind = "dir" THEN [dst |-> d, err |-> "EISDIR"]
             ELSE IF Faulty(fault, p, "create") THEN [dst |-> d, err |-> "EIO"]
             ELSE IF Faulty(fault, p, "copy")
                  THEN [dst |-> Put(d, r.name, created), err |-> "EIO"]
             ELSE IF Faulty(fault, p, "sync") \/ Faulty(fault, p, "stat")
                       \/ Faulty(fault, p, "chmod")
                  THEN [dst |-> Put(d, r.name, written), err |-> "EIO"]
             ELSE [dst |-> Put(d, r.name, chmodded), err |-> "nil"]

\* ------------------------------------------------------------------ MirrorDir
RECURSIVE MirrorDir(_, _, _, _)
RECURSIVE MirrorItems(_, _, _, _, _)

\* The loop of MirrorDir over the entries of src, in ReadDir order; it
\* returns at the first error.  d is the node at dst.  For a directory
\* entry the recursive call sees what dst/name resolves to: os.Stat and
\* os.MkdirAll follow a symlink there.  os.Symlink fails on any existing
\* entry, a symlink included.
MirrorItems(srcSub, d, names, fault, rel) ==
    IF names = <<>> THEN [dst |-> d, err |-> "nil"]
    ELSE LET name == Head(names)
             item == srcSub[name]
             p == Append(rel, name)
             cur == Child(d, name)
             step ==
                 IF item.kind = "dir"
                 THEN IF Faulty(fault, p, "stat_src") THEN [dst |-> d, err |-> "EIO"]
                      ELSE IF d.kind \in {"dangling", "absent"}
                      THEN [dst |-> d, err |-> MirrorDir(item, Dangling, fault, p).err]
                      ELSE IF d.kind # "dir" THEN [dst |-> d, err |-> "ENOTDIR"]
                      ELSE LET r == Resolve(d, name, {})
                               at == Child(d, r.name)
                               seenAs == IF r.name # name /\ at.kind = "absent"
                                         THEN Dangling ELSE at
                               m == MirrorDir(item, seenAs, fault, p)
                           IN  IF r.err # "nil" THEN [dst |-> d, err |-> r.err]
                               ELSE [dst |-> IF m.dst.kind \in {"absent", "dangling"}
                                             THEN d ELSE Put(d, r.name, m.dst),
                                     err |-> m.err]
                 ELSE IF item.kind = "symlink"
                 THEN IF Faulty(fault, p, "readlink") THEN [dst |-> d, err |-> "EIO"]
                      ELSE IF d.kind # "dir" THEN [dst |-> d, err |-> BelowErr(d)]
                      ELSE IF cur.kind # "absent" THEN [dst |-> d, err |-> "EEXIST"]
                      ELSE IF Faulty(fault, p, "symlink") THEN [dst |-> d, err |-> "EIO"]
                      ELSE [dst |-> Put(d, name, Symlink(item.data)), err |-> "nil"]
                 ELSE CopyFile(item, d, name, fault, p)
         IN  IF step.err # "nil" THEN step
             ELSE MirrorItems(srcSub, step.dst, Tail(names), fault, rel)

\* MirrorDir(src, dst): src is the node at src; dst is what the path dst
\* resolves to: Absent, a directory, a file, or Dangling.  os.MkdirAll
\* creates a missing dst unless it fails; its error (it failed, dst is a
\* file, dst cannot be created) is overwritten by that of ioutil.ReadDir,
\* so dst is then left as it was and the copies below it fail.
MirrorDir(src, dst, fault, rel) ==
    IF src.kind = "absent" THEN [dst |-> dst, err |-> "ENOENT"]
    ELSE IF Faulty(fault, rel, "stat_src") THEN [dst |-> dst, err |-> "EIO"]
    ELSE IF src.kind # "dir" THEN [dst |-> dst, err |-> "not a directory"]
    ELSE IF Faulty(fault, rel, "stat_dst") THEN [dst |-> dst, err |-> "EIO"]
    ELSE LET made == IF dst.kind = "absent" /\ ~Faulty(fault, rel, "mkdir")
                     THEN Dir(<<>>) ELSE dst
         IN  IF Faulty(fault, rel, "readdir") THEN [dst |-> made, err |-> "EIO"]
             ELSE MirrorItems(src.sub, made, SortedNames(src.sub), fault, rel)

\* ------------------------------------------------------------------ file-tree-backed store
\* List(): the certificates of the regular files of the tree, in directory
\* order (an empty file holds no certificate).
RECURSIVE ListNames(_, _)
RECURSIVE ListTree(_)

ListNames(dir, names) ==
    IF names = <<>> THEN <<>>
    ELSE ListTree(dir.sub[Head(names)]) \o ListNames(dir, Tail(names))

ListTree(node) ==
    IF node.kind = "file" /\ node.data # <<>> THEN <<Ptr(Cert(node.data))>>
    ELSE IF node.kind = "dir" THEN ListNames(node, SortedNames(node.sub))
    ELSE <<>>

Range(s) == {s[i] : i \in 1..Len(s)}

ListSet(node) == Range(ListTree(node))

\* The tree without the regular files whose certificate is in gone.
RECURSIVE Prune(_, _)
Prune(node, gone) ==
    IF node.kind # "dir" THEN node
    ELSE LET keep == {n \in DOMAIN node.sub :
                         ~(node.sub[n].kind = "file"
                           /\ Ptr(Cert(node.sub[n].data)) \in gone)}
         IN  Dir([n \in keep |-> Prune(node.sub[n], gone)])

\* The live directories of the initial states: any of two certificate
\* files, a symlink and a sub-directory that is empty or holds a file.
TreeOf(names, m) ==
    Dir([n \in names |->
            CASE n = "a.crt" -> File(<<"a", "b">>, "0644")
              [] n = "b.crt" -> File(<<"a", "c">>, "0600")
              [] n = "c.pem" -> Symlink(<<"a.crt">>)
              [] OTHER -> m])

TreePool ==
    {TreeOf(names, m) :
        names \in SUBSET {"a.crt", "b.crt", "c.pem", "mozilla"},
        m \in {Dir(<<>>), Dir([k \in {"a.crt"} |-> File(<<"b", "a">>, "0644")])}}

NoFsCall ==
    [op |-> "none", err |-> "nil", fault |-> NoFault, before |-> Absent,
     backupBefore |-> Absent, hadRecord |-> FALSE]

NoTrip == [stage |-> "none", pre |-> {}]

InitFile ==
    /\ live \in TreePool
    /\ backup = Absent
    /\ fsBackedUp = FALSE
    /\ fsCall = NoFsCall
    /\ trip = NoTrip

IdleFile ==
    /\ live = Absent
    /\ backup = Absent
    /\ fsBackedUp = FALSE
    /\ fsCall = [NoFsCall EXCEPT !.op = "idle"]
    /\ trip = NoTrip

\* Backup: mirrors the live directory under the backup directory.
FsBackup ==
    /\ fsCall.op # "idle"
    /\ \E fault \in FaultPool :
          LET r == MirrorDir(live, backup, fault, <<>>)
          IN  /\ backup' = r.dst
              /\ fsCall' = [op |-> "Backup", err |-> r.err, fault |-> fault,
                            before |-> live, backupBefore |-> backup,
                            hadRecord |-> fsBackedUp]
              /\ fsBackedUp' = (fsBackedUp \/ r.err = "nil")
              /\ trip' = IF r.err = "nil"
                         THEN [stage |-> "backedup", pre |-> ListSet(live)]
                         ELSE NoTrip
    /\ UNCHANGED live
    /\ UNCHANGED notFile

\* List: reads the live directory.
FsList ==
    /\ fsCall.op # "idle"
    /\ fsCall' = [op |-> "List", err |-> "nil", fault |-> NoFault,
                  before |-> live, backupBefore |-> backup,
                            hadRecord |-> fsBackedUp]
    /\ UNCHANGED <<live, backup, fsBackedUp, trip>>
    /\ UNCHANGED notFile

\* Remove: fails without a Backup in the session; otherwise deletes the
\* files of the certificates findRemovable returns for List().
FsRemove ==
    /\ fsCall.op # "idle"
    /\ \E wh \in StoreWhitelists :
          IF ~fsBackedUp
          THEN /\ fsCall' = [op |-> "Remove", err |-> "NoBackupError",
                             fault |-> NoFault, before |-> live,
                             backupBefore |-> backup, hadRecord |-> fsBackedUp]
               /\ trip' = NoTrip
               /\ UNCHANGED live
          ELSE /\ live' = Prune(live, Range(findRemovable(ListTree(live), wh)))
               /\ fsCall' = [op |-> "Remove", err |-> "nil", fault |-> NoFault,
                             before |-> live, backupBefore |-> backup,
                            hadRecord |-> fsBackedUp]
               /\ trip' = IF trip.stage = "backedup"
                          THEN [trip EXCEPT !.stage = "removed"] ELSE NoTrip
    /\ UNCHANGED <<backup, fsBackedUp>>
    /\ UNCHANGED notFile

\* Restore: fails when there is no backup directory; otherwise replaces
\* the live directory by the backup directory.
FsRestore ==
    /\ fsCall.op # "idle"
    /\ IF backup.kind = "absent"
       THEN /\ fsCall' = [op |-> "Restore", err |-> "NoBackupFoundError",
                          fault |-> NoFault, before |-> live,
                          backupBefore |-> backup, hadRecord |-> fsBackedUp]
            /\ trip' = NoTrip
            /\ UNCHANGED live
       ELSE /\ live' = backup
            /\ fsCall' = [op |-> "Restore", err |-> "nil", fault |-> NoFault,
                          before |-> live, backupBefore |-> backup,
                            hadRecord |-> fsBackedUp]
            /\ trip' = IF trip.stage = "removed"
                       THEN [trip EXCEPT !.stage = "restored"] ELSE NoTrip
    /\ UNCHANGED <<backup, fsBackedUp>>
    /\ UNCHANGED notFile

NextFile == FsBackup \/ FsList \/ FsRemove \/ FsRestore

\* ------------------------------------------------------------------ claims: server
\* C10: Stop neither returns nor shuts the server down before as many /done
\* requests have been handled as Start was called, and the number of
\* outstanding waits (calls of Start less handled /done requests) never
\* drops below zero.
CompletionSignal ==
    /\ (mainpc \in {"shutdown", "returned", "panicked"} \/ shut) => handled >= starts
    /\ starts - handled >= 0
    /\ wg >= 0

\* ------------------------------------------------------------------ claims: windows store
\* C1: a Remove invoked when no Backup has succeeded in the session fails
\* with NoBackupError and leaves the live store unchanged.
BackupBeforeRemove ==
    (winCall.op = "Remove" /\ ~winBackedUp) =>
        (winCall.err = "NoBackupError" /\ winStore = winCall.before)

\* C4: a Restore invoked when no Backup has ever succeeded fails with
\* NoBackupFoundError and leaves the live store unchanged.
RestoreNeedsBackup ==
    (winCall.op = "Restore" /\ ~winBackedUp) =>
        (winCall.err = "NoBackupFoundError" /\ winStore = winCall.before)

\* ------------------------------------------------------------------ claims: file-tree-backed store
\* C3: after Backup(); Remove(W); Restore(), each succeeding, List() returns
\* the set it returned before the Backup.
RestoreRoundTrip ==
    trip.stage = "restored" => ListSet(live) = trip.pre

\* C5: a Backup called when a backup record exists succeeds and leaves the
\* record holding exactly the content of the live store.
BackupLastWriteWins ==
    (fsCall.op = "Backup" /\ fsCall.hadRecord /\ fsCall.fault = NoFault) =>
        (fsCall.err = "nil" /\ backup = live)

\* C6: a Backup that returns an error leaves the backup location holding
\* what it held before the call.
BackupAllOrNothing ==
    (fsCall.op = "Backup" /\ fsCall.err # "nil") => backup = fsCall.backupBefore

\* ------------------------------------------------------------------ claims: resolver
AllPresent(s) == \A i \in 1..Len(s) : ~s[i].nil

NoItemMatches(p, wl) == \A i \in 1..Len(wl) : ~Matches(wl[i], p.cert)

Occurrences(s, x) == Cardinality({i \in 1..Len(s) : s[i] = x})

\* C2: for a snapshot without nil entries, findRemovable returns exactly the
\* records that no whitelist item matches, each as often as the snapshot
\* holds it; with the empty whitelist it returns the whole snapshot, and
\* from the empty snapshot it returns nothing.
ResolverExact ==
    (rpc = "done" /\ AllPresent(incoming)) =>
        /\ \A p \in CertPtrs :
              Occurrences(removable, p) =
                  IF NoItemMatches(p, whitelisted) THEN Occurrences(incoming, p) ELSE 0
        /\ (whitelisted = <<>> => removable = incoming)
        /\ (incoming = <<>> => removable = <<>>)

\* A snapshot of present records of which one is retained by the first of
\* two items only (the second does not match it) and another is removed.
ResolverExactWitness ==
    /\ rpc = "done"
    /\ AllPresent(incoming)
    /\ Len(whitelisted) = 2
    /\ \E i, j \in 1..Len(incoming) :
          /\ Matches(whitelisted[1], incoming[i].cert)
          /\ ~Matches(whitelisted[2], incoming[i].cert)
          /\ NoItemMatches(incoming[j], whitelisted)
    /\ Len(removable) >= 1
    /\ Len(removable) < Len(incoming)

\* C7: the output of findRemovable holds no nil entry.
NoNilInOutput ==
    rpc = "done" => \A i \in 1..Len(removable) : ~removable[i].nil

\* ------------------------------------------------------------------ claims: loader
Decodable(doc) ==
    /\ doc.syntax
    /\ \/ doc.top = "null"
       \/ /\ doc.top = "object"
          /\ \/ doc.sigs \in {"absent", "null"}
             \/ /\ doc.sigs = "object"
                /\ \/ doc.hex \in {"absent", "null"}
                   \/ /\ doc.hex = "array"
                      /\ \A i \in 1..Len(doc.elems) : doc.elems[i].kind # "number"

HexEntries(doc) ==
    IF doc.top = "object" /\ doc.sigs = "object" /\ doc.hex = "array"
    THEN doc.elems ELSE <<>>

FileMissing(d, p) == p \in DOMAIN d /\ d[p] = "missing"

\* C9: loadFromFile fails, returning no items, when the path is empty, the
\* path starts with "-", the file does not exist or the contents do not
\* decode; an error never comes with items; a successful load returns one
\* fingerprint item per entry of Signatures.Hex, in file order.
LoadAllOrNothing ==
    lpc = "done" =>
        /\ (path = <<>> \/ HasPrefix(path, <<"-">>) \/ FileMissing(disk, path)
              \/ ~Decodable(contents))
             => (loaded.err # "nil" /\ loaded.items = <<>>)
        /\ (loaded.err # "nil" => loaded.items = <<>>)
        /\ (loaded.err = "nil" =>
              /\ Len(loaded.items) = Len(HexEntries(contents))
              /\ \A i \in 1..Len(loaded.items) :
                    loaded.items[i] = fingerprint(HexEntries(contents)[i].str))

\* A file that exists under a well-formed path and whose Hex array holds a
\* string next to a number: the decoder leaves a partly filled list.
LoadAllOrNothingWitness ==
    /\ lpc = "done"
    /\ validWhitelistPath(disk, path).ok
    /\ ReadFile(disk, contents, path).ok
    /\ Unmarshal(contents).err # "nil"
    /\ \E i \in 1..Len(Unmarshal(contents).Hex) : Unmarshal(contents).Hex[i] # <<>>
    /\ loaded.err # "nil"


\* ------------------------------------------------------------------ specifications
NextResolver == FindRemovableCall

NextLoad == LoadFromFileCall

OnlyResolver == InitResolver /\ IdleLoad /\ IdleServer /\ IdleWindows /\ IdleFile

SpecResolver == OnlyResolver /\ [][NextResolver]_vars

OnlyLoad == InitLoad /\ IdleResolver /\ IdleServer /\ IdleWindows /\ IdleFile

SpecLoad == OnlyLoad /\ [][NextLoad]_vars

OnlyServer == InitServer /\ IdleResolver /\ IdleLoad /\ IdleWindows /\ IdleFile

SpecServer == OnlyServer /\ [][NextServer]_vars

OnlyWindows == InitWindows /\ IdleResolver /\ IdleLoad /\ IdleServer /\ IdleFile

SpecWindows == OnlyWindows /\ [][NextWindows]_vars

OnlyFile == InitFile /\ IdleResolver /\ IdleLoad /\ IdleServer /\ IdleWindows

SpecFile == OnlyFile /\ [][NextFile]_vars

====
